---------------------------- MODULE Spec2Model ----------------------------
(***************************************************************************)
(* Single-server FIFO discrete-event simulation, five source variants:     *)
(*   Final.py, z___ChatGPT.py, z___Gemini.py, z___Perplexity.py,           *)
(*   z___deepseek.py.                                                      *)
(* One run of one variant is modelled: the variant is fixed in Init, and   *)
(* every action is one iteration of that variant's event loop (select the  *)
(* next event, advance the clock, accumulate the area, process the event). *)
(* Exponential draws are replaced by a nondeterministic choice of an       *)
(* integer duration; simulation time is an integer.                        *)
(***************************************************************************)
EXTENDS Integers, Sequences, FiniteSets, TLC

\* ----------------------------------------------------------------- bounds
\* Largest duration the variate source returns (durations are 0..MaxDur).
MaxDur == 2
\* Number of loop iterations (dispatched events) explored per run.
MaxEvents == 6
\* Largest customer-count horizon N tried for Perplexity's main(N=...).
MaxN == 2

Durations == 0 .. MaxDur

\* float("inf"): the no-pending-departure sentinel.  Any integer larger than
\* every finite time a run can reach compares like infinity.
INF == 1000000

Variants == {"Final", "ChatGPT", "Gemini", "Perplexity", "deepseek"}

VARIABLES
  variant,            \* which source file is running
  N,                  \* Perplexity: main(N=...); 0 elsewhere (no horizon)
  pc,                 \* "run": inside the loop; "done": loop left;
                      \* "IndexError": Perplexity read past A or S;
                      \* "ValueError": numpy refused the arguments of main
  t,                  \* t / clock / self.clock
  server_busy,        \* server_busy / self.server_status = 'BUSY'
  queue,              \* queue / q / queue_arrival_times / self.queue
  next_arrival,       \* scalar variants: time of the pending arrival
  next_departure,     \* scalar variants: time of the pending departure or INF
  event_list,         \* deepseek: self.event_list, a list of <<kind, time>>
  num_arrivals,       \* num_arrivals / arrivals / total_arrivals
  num_served,         \* num_served / served / total_served
  delays,             \* delays / wait_time_data / self.delays
  total_wait,         \* sum_wait / total_wait_time / self.total_delay
  count_started,      \* Perplexity: count_started
  area_Q,             \* area_Q / area_q / self.Q_area
  last_event_time,    \* last_event_time / last_t
  current_Q,          \* deepseek current_Q, Gemini stats["current_queue_len"]
  current_in_service, \* Gemini stats["current_in_service"]
  avg_wait,           \* deepseek self.avg_wait, Gemini stats["avg_wait"]: <<num, den>>
  customer_indices,   \* Gemini customer_indices
  ia_i,               \* interarrival draws taken so far (Perplexity: index into A)
  sv_i,               \* service draws taken so far (Perplexity: index into S)
  events,             \* event_counter / events: loop iterations completed
  hist,               \* the dispatched events, in order (the run's event history)
  cfg,                \* the two means the run was configured with (their signs)
  throttle,           \* UPDATE_EVERY / redraw_every / events_per_frame
  snapshots,          \* calls of update_plots / update_plot / chart updates so far
  stream,             \* values the variate generator has returned, by position
  run,                \* 1: first execution of the program, 2: second execution
  trace               \* what the first execution went through, event by event

vars == <<variant, N, pc, t, server_busy, queue, next_arrival, next_departure,
          event_list, num_arrivals, num_served, delays, total_wait,
          count_started, area_Q, last_event_time, current_Q,
          current_in_service, avg_wait, customer_indices, ia_i, sv_i, events,
          hist, cfg, throttle, snapshots, stream, run, trace>>

\* ---------------------------------------------------------------- helpers
RECURSIVE SumSeq(_)
SumSeq(s) == IF s = <<>> THEN 0 ELSE Head(s) + SumSeq(Tail(s))

Last(s) == s[Len(s)]

\* One record of the event history, written by every loop iteration after it
\* has processed its event: the event's kind and time, whether the server was
\* busy and how long the wait line was when it was dispatched, the wait-line
\* length it left, and whether a customer began service at it and the wait
\* the code recorded for that customer.
Log(kind, started, wait) ==
  hist' = Append(hist, [kind        |-> kind,
                        time        |-> t',
                        busy_before |-> server_busy,
                        qlen_before |-> Len(queue),
                        qlen        |-> Len(queue'),
                        started     |-> started,
                        wait        |-> wait])

\* float addition of a duration to a clock value: inf + x = inf.
TimePlus(clock, d) == IF clock + d >= INF THEN INF ELSE clock + d

\* UPDATE_EVERY = 5 (Final, ChatGPT); main(..., redraw_every=1) (Perplexity);
\* events_per_frame = 3: simulation_step dispatches three events, then calls
\* update_metrics and redraws (deepseek).  Gemini redraws at every iteration.
UPDATE_EVERY == 5
redraw_every == 1
events_per_frame == 3

DefaultThrottle(v) ==
  CASE v \in {"Final", "ChatGPT"} -> UPDATE_EVERY
    [] v = "Perplexity" -> redraw_every
    [] v = "deepseek" -> events_per_frame
    [] OTHER -> 1

\* The snapshot throttle at the end of a loop iteration:
\*   if event_counter % UPDATE_EVERY == 0: update_plots()
\* The plotting functions read the simulation state and write none of it.
SnapshotDue(n) == n % throttle = 0
Emit ==
  snapshots' = IF events' # events /\ SnapshotDue(events')
               THEN snapshots + 1 ELSE snapshots

\* Means as the scripts and the default arguments give them: positive.
DefaultCfg == [mean_inter |-> 1, mean_serv |-> 1]

\* ------------------------------------------------------------------- Init
\* State after the initialisation section of each script / constructor:
\* clock 0, idle server, empty wait line, zero statistics and the first
\* arrival scheduled at the first interarrival draw.
StartOfRun(a) ==
  /\ t = 0
  /\ server_busy = FALSE
  /\ queue = <<>>
  /\ IF variant = "deepseek"
     THEN /\ event_list = << <<"ARRIVAL", a>> >>
          /\ next_arrival = INF
     ELSE /\ event_list = <<>>
          /\ next_arrival = a
  /\ next_departure = INF
  /\ num_arrivals = 0
  /\ num_served = 0
  /\ delays = <<>>
  /\ total_wait = 0
  /\ count_started = 0
  /\ area_Q = 0
  /\ last_event_time = 0
  /\ current_Q = 0
  /\ current_in_service = 0
  /\ avg_wait = <<0, 1>>
  /\ customer_indices = <<>>
  /\ ia_i = 1
  /\ sv_i = 0
  /\ events = 0
  /\ hist = <<>>
  /\ snapshots = 0

\* One execution with the means and the throttle the source gives, the first
\* interarrival draw taken from IA.
InitWith(Vs, Ns, IA) ==
  /\ variant \in Vs
  /\ N \in (IF variant = "Perplexity" THEN Ns ELSE {0})
  /\ pc = "run"
  /\ \E a \in IA : StartOfRun(a)
  /\ cfg = DefaultCfg
  /\ throttle = DefaultThrottle(variant)
  /\ stream = <<>>
  /\ run = 1
  /\ trace = <<>>

Init == InitWith(Variants, 1 .. MaxN, Durations)

\* ------------------------------------------------------- the wait line
\* The arriving customer not put into the wait line.
QueueKeep(q, x) == q

\* deque.append(x): the customer joins at the tail.
QueueAppend(q, x) == Append(q, x)

\* A LIFO slip: the entry at the tail is dropped instead of the head.
PopRight(q) == SubSeq(q, 1, Len(q) - 1)

\* deque.popleft(): q[1] is returned (Head), this is what is left.
PopLeft(q) == Tail(q)

\* The subtraction the wrong way round.
WaitReversed(clock, arrival_time) == arrival_time - clock

\* wait = clock - arrival_time: the delay recorded for a customer taken from
\* the wait line (Final, ChatGPT, Gemini, deepseek).
Wait(clock, arrival_time) == clock - arrival_time

\* ------------------------------------------------- next-event selection
\* The comparison reversed: the later of the two pending events is taken.
SelectLatest == next_arrival >= next_departure

\* The tie given to the departure: a strict comparison.
SelectStrict == next_arrival < next_departure

\* The two-scalar timing routine of Final, ChatGPT, Gemini and Perplexity:
\*   if next_arrival <= next_departure: arrival else: departure
SelectArrival == next_arrival <= next_departure

\* --------------------------------------------------------------- Final.py
\* The customer in service counted into the queue length.
AreaStepInSystem(te) ==
  area_Q + (Len(queue) + (IF server_busy THEN 1 ELSE 0)) * (te - last_event_time)

\* The area brought up to date only in the iterations that redraw.
AreaStepAtSnapshot(te) ==
  IF SnapshotDue(events + 1)
  THEN area_Q + Len(queue) * (te - last_event_time)
  ELSE area_Q

\* Area under Q(t) as Final, ChatGPT and Perplexity accumulate it: the
\* wait-line length before the event times the elapsed interval.
AreaStep(te) == area_Q + Len(queue) * (te - last_event_time)

FinalArrival(IA, SV) ==
  /\ variant = "Final" /\ pc = "run"
  /\ SelectArrival
  /\ area_Q' = AreaStep(next_arrival)
  /\ t' = next_arrival
  /\ last_event_time' = next_arrival
  /\ num_arrivals' = num_arrivals + 1
  /\ \E A_i \in IA :
       /\ ia_i' = ia_i + 1
       /\ IF ~server_busy
          THEN \E S_i \in SV :
                 /\ server_busy' = TRUE
                 /\ delays' = Append(delays, 0)
                 /\ sv_i' = sv_i + 1
                 /\ next_departure' = TimePlus(t', S_i)
                 /\ queue' = queue
          ELSE /\ queue' = QueueAppend(queue, t')
               /\ UNCHANGED <<server_busy, delays, sv_i, next_departure>>
       /\ next_arrival' = TimePlus(t', A_i)
  /\ events' = events + 1
  /\ Log("ARRIVAL", ~server_busy, IF ~server_busy THEN Last(delays') ELSE 0)
  /\ Emit
  /\ UNCHANGED <<variant, N, cfg, throttle, pc, event_list, num_served,
                 total_wait,
                 count_started, current_Q, current_in_service, avg_wait,
                 customer_indices>>

FinalDeparture(SV) ==
  /\ variant = "Final" /\ pc = "run"
  /\ ~SelectArrival
  /\ area_Q' = AreaStep(next_departure)
  /\ t' = next_departure
  /\ last_event_time' = next_departure
  /\ num_served' = num_served + 1
  /\ \E S_i \in SV :
       /\ sv_i' = sv_i + 1
       /\ IF queue # <<>>
          THEN /\ queue' = PopLeft(queue)
               /\ delays' = Append(delays, Wait(t', Head(queue)))
               /\ next_departure' = TimePlus(t', S_i)
               /\ server_busy' = server_busy
          ELSE /\ server_busy' = FALSE
               /\ next_departure' = INF
               /\ UNCHANGED <<queue, delays>>
  /\ events' = events + 1
  /\ Log("DEPARTURE", queue # <<>>, IF queue # <<>> THEN Last(delays') ELSE 0)
  /\ Emit
  /\ UNCHANGED <<variant, N, cfg, throttle, pc, event_list, next_arrival,
                 num_arrivals,
                 total_wait, count_started, current_Q, current_in_service,
                 avg_wait, customer_indices, ia_i>>

\* ----------------------------------------------------------- z___ChatGPT.py
\* Same loop as Final; the service draw is taken before the interarrival
\* draw on an idle arrival, and a departure draws only when a customer is
\* waiting.
ChatGPTArrival(IA, SV) ==
  /\ variant = "ChatGPT" /\ pc = "run"
  /\ SelectArrival
  /\ area_Q' = AreaStep(next_arrival)
  /\ t' = next_arrival
  /\ last_event_time' = next_arrival
  /\ num_arrivals' = num_arrivals + 1
  /\ IF ~server_busy
     THEN \E S_i \in SV :
            /\ server_busy' = TRUE
            /\ delays' = Append(delays, 0)
            /\ sv_i' = sv_i + 1
            /\ next_departure' = TimePlus(t', S_i)
            /\ queue' = queue
     ELSE /\ queue' = QueueAppend(queue, t')
          /\ UNCHANGED <<server_busy, delays, sv_i, next_departure>>
  /\ \E A_i \in IA :
       /\ ia_i' = ia_i + 1
       /\ next_arrival' = TimePlus(t', A_i)
  /\ events' = events + 1
  /\ Log("ARRIVAL", ~server_busy, IF ~server_busy THEN Last(delays') ELSE 0)
  /\ Emit
  /\ UNCHANGED <<variant, N, cfg, throttle, pc, event_list, num_served,
                 total_wait,
                 count_started, current_Q, current_in_service, avg_wait,
                 customer_indices>>

ChatGPTDeparture(SV) ==
  /\ variant = "ChatGPT" /\ pc = "run"
  /\ ~SelectArrival
  /\ area_Q' = AreaStep(next_departure)
  /\ t' = next_departure
  /\ last_event_time' = next_departure
  /\ num_served' = num_served + 1
  /\ IF queue # <<>>
     THEN \E S_i \in SV :
            /\ queue' = PopLeft(queue)
            /\ delays' = Append(delays, Wait(t', Head(queue)))
            /\ sv_i' = sv_i + 1
            /\ next_departure' = TimePlus(t', S_i)
            /\ server_busy' = server_busy
     ELSE /\ server_busy' = FALSE
          /\ next_departure' = INF
          /\ UNCHANGED <<queue, delays, sv_i>>
  /\ events' = events + 1
  /\ Log("DEPARTURE", queue # <<>>, IF queue # <<>> THEN Last(delays') ELSE 0)
  /\ Emit
  /\ UNCHANGED <<variant, N, cfg, throttle, pc, event_list, next_arrival,
                 num_arrivals,
                 total_wait, count_started, current_Q, current_in_service,
                 avg_wait, customer_indices, ia_i>>

\* ------------------------------------------------------------ z___Gemini.py
\* stats["avg_wait"] = total_wait_time / len(wait_time_data), refreshed at
\* the end of every iteration once a wait has been recorded.
GeminiAvgWait(tw, wd) == IF Len(wd) > 0 THEN <<tw, Len(wd)>> ELSE avg_wait

GeminiArrival(IA, SV) ==
  /\ variant = "Gemini" /\ pc = "run"
  /\ SelectArrival
  /\ t' = next_arrival
  /\ num_arrivals' = num_arrivals + 1
  /\ \E A_i \in IA :
       /\ ia_i' = ia_i + 1
       /\ next_arrival' = TimePlus(t', A_i)
  /\ IF ~server_busy
     THEN \E S_i \in SV :
            /\ server_busy' = TRUE
            /\ current_in_service' = 1
            /\ delays' = Append(delays, 0)
            /\ customer_indices' = Append(customer_indices, num_arrivals')
            /\ sv_i' = sv_i + 1
            /\ next_departure' = TimePlus(t', S_i)
            /\ UNCHANGED <<queue, current_Q>>
     ELSE /\ queue' = QueueAppend(queue, t')
          /\ current_Q' = current_Q + 1
          /\ UNCHANGED <<server_busy, current_in_service, delays,
                         customer_indices, sv_i, next_departure>>
  /\ avg_wait' = GeminiAvgWait(total_wait, delays')
  /\ events' = events + 1
  /\ Log("ARRIVAL", ~server_busy, IF ~server_busy THEN Last(delays') ELSE 0)
  /\ Emit
  /\ UNCHANGED <<variant, N, cfg, throttle, pc, event_list, num_served,
                 total_wait,
                 count_started, area_Q, last_event_time>>

GeminiDeparture(SV) ==
  /\ variant = "Gemini" /\ pc = "run"
  /\ ~SelectArrival
  /\ t' = next_departure
  /\ num_served' = num_served + 1
  /\ IF current_Q > 0
     THEN \E S_i \in SV :
            /\ queue' = PopLeft(queue)
            /\ current_Q' = current_Q - 1
            /\ total_wait' = total_wait + Wait(t', Head(queue))
            /\ delays' = Append(delays, Wait(t', Head(queue)))
            /\ customer_indices' = Append(customer_indices, num_arrivals)
            /\ sv_i' = sv_i + 1
            /\ next_departure' = TimePlus(t', S_i)
            /\ UNCHANGED <<server_busy, current_in_service>>
     ELSE /\ server_busy' = FALSE
          /\ current_in_service' = 0
          /\ next_departure' = INF
          /\ UNCHANGED <<queue, current_Q, total_wait, delays,
                         customer_indices, sv_i>>
  /\ avg_wait' = GeminiAvgWait(total_wait', delays')
  /\ events' = events + 1
  /\ Log("DEPARTURE", current_Q > 0, IF current_Q > 0 THEN Last(delays') ELSE 0)
  /\ Emit
  /\ UNCHANGED <<variant, N, cfg, throttle, pc, event_list, next_arrival,
                 num_arrivals,
                 count_started, area_Q, last_event_time, ia_i>>

\* -------------------------------------------------------- z___Perplexity.py
\* M = 10 * N + 1000: the length of the pre-generated arrays A and S.
M(n) == 10 * n + 1000

\* An off-by-one loop condition: one more iteration after served reached N.
PerplexityLoopCondLeq(served, n) == served <= n

\* while served < N
PerplexityLoopCond(served, n) == served < n

\* delay = max(0.0, t - a)
PerplexityDelay(clock, a) == IF clock - a > 0 THEN clock - a ELSE 0

\* An arrival.  A[ia_i] raises IndexError once ia_i has reached M (the
\* counters and the clock are already updated, the event is not processed);
\* S[sv_i] likewise, after the server was set busy.
PerplexityArrival(IA, SV) ==
  /\ variant = "Perplexity" /\ pc = "run"
  /\ SelectArrival
  /\ area_Q' = AreaStep(next_arrival)
  /\ last_event_time' = next_arrival
  /\ t' = next_arrival
  /\ num_arrivals' = num_arrivals + 1
  /\ IF ia_i >= M(N)
     THEN /\ pc' = "IndexError"
          /\ UNCHANGED <<next_arrival, ia_i, server_busy, total_wait,
                         count_started, next_departure, sv_i, queue, events>>
          /\ Log("ARRIVAL", FALSE, 0)
     ELSE /\ \E A_i \in IA : next_arrival' = TimePlus(t', A_i)
          /\ ia_i' = ia_i + 1
          /\ IF ~server_busy
             THEN /\ server_busy' = TRUE
                  /\ total_wait' = total_wait + 0
                  /\ count_started' = count_started + 1
                  /\ queue' = queue
                  /\ Log("ARRIVAL", TRUE, total_wait' - total_wait)
                  /\ IF sv_i >= M(N)
                     THEN /\ pc' = "IndexError"
                          /\ UNCHANGED <<next_departure, sv_i, events>>
                     ELSE /\ \E S_i \in SV : next_departure' = TimePlus(t', S_i)
                          /\ sv_i' = sv_i + 1
                          /\ events' = events + 1
                          /\ pc' = pc
             ELSE /\ queue' = QueueAppend(queue, t')
                  /\ events' = events + 1
                  /\ Log("ARRIVAL", FALSE, 0)
                  /\ UNCHANGED <<pc, server_busy, total_wait, count_started,
                                 next_departure, sv_i>>
  /\ Emit
  /\ UNCHANGED <<variant, N, cfg, throttle, event_list, num_served, delays,
                 current_Q,
                 current_in_service, avg_wait, customer_indices>>

\* A departure.  Once served has reached N the server is set idle whatever
\* the wait line holds, and the while condition ends the loop.
PerplexityDeparture(SV) ==
  /\ variant = "Perplexity" /\ pc = "run"
  /\ ~SelectArrival
  /\ area_Q' = AreaStep(next_departure)
  /\ last_event_time' = next_departure
  /\ t' = next_departure
  /\ num_served' = num_served + 1
  /\ IF num_served' >= N
     THEN /\ server_busy' = FALSE
          /\ next_departure' = INF
          /\ events' = events + 1
          /\ pc' = IF PerplexityLoopCond(num_served', N) THEN "run" ELSE "done"
          /\ UNCHANGED <<queue, total_wait, count_started, sv_i>>
          /\ Log("DEPARTURE", FALSE, 0)
     ELSE IF queue # <<>>
          THEN /\ queue' = PopLeft(queue)
               /\ total_wait' = total_wait + PerplexityDelay(t', Head(queue))
               /\ count_started' = count_started + 1
               /\ Log("DEPARTURE", TRUE, total_wait' - total_wait)
               /\ IF sv_i >= M(N)
                  THEN /\ pc' = "IndexError"
                       /\ UNCHANGED <<next_departure, sv_i, server_busy, events>>
                  ELSE /\ \E S_i \in SV : next_departure' = TimePlus(t', S_i)
                       /\ sv_i' = sv_i + 1
                       /\ server_busy' = TRUE
                       /\ events' = events + 1
                       /\ pc' = IF PerplexityLoopCond(num_served', N)
                                THEN "run" ELSE "done"
          ELSE /\ server_busy' = FALSE
               /\ next_departure' = INF
               /\ events' = events + 1
               /\ pc' = IF PerplexityLoopCond(num_served', N) THEN "run" ELSE "done"
               /\ UNCHANGED <<queue, total_wait, count_started, sv_i>>
               /\ Log("DEPARTURE", FALSE, 0)
  /\ Emit
  /\ UNCHANGED <<variant, N, cfg, throttle, event_list, next_arrival,
                 num_arrivals, delays,
                 current_Q, current_in_service, avg_wait, customer_indices,
                 ia_i>>

\* ---------------------------------------------------------- z___deepseek.py
\* min(self.event_list, key=lambda x: x[1]): the index of the first entry of
\* the list whose time is minimal.
MinIndex(list) ==
  CHOOSE i \in 1 .. Len(list) :
    /\ \A j \in 1 .. Len(list) : list[i][2] <= list[j][2]
    /\ \A j \in 1 .. (i - 1) : list[j][2] > list[i][2]

\* list.remove(e): the list without its first entry equal to e.
RemoveFirst(list, e) ==
  LET i == CHOOSE k \in 1 .. Len(list) :
             list[k] = e /\ \A j \in 1 .. (k - 1) : list[j] # e
  IN  SubSeq(list, 1, i - 1) \o SubSeq(list, i + 1, Len(list))

\* timing_routine: the event it returns and the event list it leaves.
TimingEvent == event_list[MinIndex(event_list)]
\* The dispatched entry left in the list.
TimingKeep == event_list
TimingRest == RemoveFirst(event_list, TimingEvent)

\* update_queue_area(self.clock), called by timing_routine after the clock
\* was advanced.
UpdateQueueArea(current_time) ==
  area_Q + current_Q * (current_time - last_event_time)

\* update_metrics: the average wait as numerator and denominator.
UpdateMetrics(delay, served) ==
  IF served > 0 THEN <<delay, served>> ELSE <<0, 1>>

\* simulation_step calls update_metrics after the last event of a frame.
FrameEnd(n) == n % throttle = 0

DeepseekArrival(IA, SV) ==
  /\ variant = "deepseek" /\ pc = "run"
  /\ event_list # <<>>
  /\ TimingEvent[1] = "ARRIVAL"
  /\ t' = TimingEvent[2]
  /\ area_Q' = UpdateQueueArea(t')
  /\ last_event_time' = t'
  /\ num_arrivals' = num_arrivals + 1
  /\ \E A_i \in IA :
       LET list1 == Append(TimingRest, <<"ARRIVAL", TimePlus(t', A_i)>>) IN
       IF ~server_busy
       THEN /\ server_busy' = TRUE
            /\ delays' = Append(delays, 0)
            /\ total_wait' = total_wait + 0
            /\ num_served' = num_served + 1
            /\ \E S_i \in SV :
                 event_list' = Append(list1, <<"DEPARTURE", TimePlus(t', S_i)>>)
            /\ sv_i' = sv_i + 1
            /\ UNCHANGED <<queue, current_Q>>
       ELSE /\ queue' = QueueAppend(queue, t')
            /\ current_Q' = Len(queue')
            /\ event_list' = list1
            /\ UNCHANGED <<server_busy, delays, total_wait, num_served, sv_i>>
  /\ ia_i' = ia_i + 1
  /\ events' = events + 1
  /\ avg_wait' = IF FrameEnd(events')
                 THEN UpdateMetrics(total_wait', num_served') ELSE avg_wait
  /\ Log("ARRIVAL", ~server_busy, IF ~server_busy THEN Last(delays') ELSE 0)
  /\ Emit
  /\ UNCHANGED <<variant, N, cfg, throttle, pc, next_arrival, next_departure,
                 count_started,
                 current_in_service, customer_indices>>

DeepseekDeparture(SV) ==
  /\ variant = "deepseek" /\ pc = "run"
  /\ event_list # <<>>
  /\ TimingEvent[1] = "DEPARTURE"
  /\ t' = TimingEvent[2]
  /\ area_Q' = UpdateQueueArea(t')
  /\ last_event_time' = t'
  /\ num_served' = num_served + 1
  /\ IF queue # <<>>
     THEN /\ queue' = PopLeft(queue)
          /\ current_Q' = Len(queue')
          /\ delays' = Append(delays, Wait(t', Head(queue)))
          /\ total_wait' = total_wait + Wait(t', Head(queue))
          /\ \E S_i \in SV :
               event_list' = Append(TimingRest, <<"DEPARTURE", TimePlus(t', S_i)>>)
          /\ sv_i' = sv_i + 1
          /\ server_busy' = server_busy
     ELSE /\ server_busy' = FALSE
          /\ current_Q' = 0
          /\ event_list' = TimingRest
          /\ UNCHANGED <<queue, delays, total_wait, sv_i>>
  /\ events' = events + 1
  /\ avg_wait' = IF FrameEnd(events')
                 THEN UpdateMetrics(total_wait', num_served') ELSE avg_wait
  /\ Log("DEPARTURE", queue # <<>>, IF queue # <<>> THEN Last(delays') ELSE 0)
  /\ Emit
  /\ UNCHANGED <<variant, N, cfg, throttle, pc, next_arrival, next_departure,
                 num_arrivals,
                 count_started, current_in_service, customer_indices, ia_i>>

\* ------------------------------------------------------------------ Next
\* One execution of the program: nothing is replayed or compared.
Single == UNCHANGED <<stream, run, trace>>

\* One loop iteration of the running variant, with durations drawn from
\* Durations, for at most MaxEvents iterations.
Next ==
  \/ (events < MaxEvents /\ FinalArrival(Durations, Durations) /\ Single)
  \/ (events < MaxEvents /\ FinalDeparture(Durations) /\ Single)
  \/ (events < MaxEvents /\ ChatGPTArrival(Durations, Durations) /\ Single)
  \/ (events < MaxEvents /\ ChatGPTDeparture(Durations) /\ Single)
  \/ (events < MaxEvents /\ GeminiArrival(Durations, Durations) /\ Single)
  \/ (events < MaxEvents /\ GeminiDeparture(Durations) /\ Single)
  \/ (events < MaxEvents /\ PerplexityArrival(Durations, Durations) /\ Single)
  \/ (events < MaxEvents /\ PerplexityDeparture(Durations) /\ Single)
  \/ (events < MaxEvents /\ DeepseekArrival(Durations, Durations) /\ Single)
  \/ (events < MaxEvents /\ DeepseekDeparture(Durations) /\ Single)

Spec == Init /\ [][Next]_vars


\* ------------------------------------------------------- array exhaustion
\* Perplexity's main(N) run to the end of its loop, with no bound on the
\* number of events: every interarrival draw is 1, a service draw is 1 or as
\* long as the longest array A (M(MaxN) time units).
LongIA == {1}
LongSV == {1, M(MaxN)}

InitExhaust == InitWith({"Perplexity"}, 1 .. MaxN, LongIA)

NextExhaust ==
  \/ (PerplexityArrival(LongIA, LongSV) /\ Single)
  \/ (PerplexityDeparture(LongSV) /\ Single)

SpecExhaust == InitExhaust /\ [][NextExhaust]_vars

\* ------------------------------------------------- reading the history
\* The ARRIVAL events of a history, and the events at which a customer began
\* service, each in the order they were dispatched.
IsArrival(e) == e.kind = "ARRIVAL"
IsStart(e) == e.started
ArrivalEvents(h) == SelectSeq(h, IsArrival)
StartEvents(h) == SelectSeq(h, IsStart)

\* Number of customers who have begun service.
NStarted == Len(StartEvents(hist))

\* The times of the pending Arrival and of the pending Departure(s).
PendingArrivals ==
  IF variant = "deepseek"
  THEN {event_list[i][2] : i \in {j \in 1 .. Len(event_list) : event_list[j][1] = "ARRIVAL"}}
  ELSE {next_arrival} \ {INF}

PendingDepartures ==
  IF variant = "deepseek"
  THEN {event_list[i][2] : i \in {j \in 1 .. Len(event_list) : event_list[j][1] = "DEPARTURE"}}
  ELSE {next_departure} \ {INF}

Busy01 == IF server_busy THEN 1 ELSE 0

\* A loop iteration that dispatched an event.
Dispatched == Len(hist') = Len(hist) + 1

\* ------------------------------------------------------------------ C1
\* C1: in every variant, after every dispatched event, the wait-line length
\* plus 1 if the server is busy equals arrivals minus served.
C1_InSystemBalance ==
  Len(queue) + Busy01 = num_arrivals - num_served

\* The same balance in the four variants that count a served customer only
\* at its departure.
C1_BalanceScalarVariants ==
  variant # "deepseek" => Len(queue) + Busy01 = num_arrivals - num_served

\* ------------------------------------------------------------------ C2
\* C2: whenever an Arrival and a Departure are pending at the same time
\* value, the next event dispatched is the Arrival and the arriving customer
\* joins the wait line; in every variant.
TiePending == PendingArrivals \cap PendingDepartures # {}

C2_ArrivalFirstOnTie ==
  [][(TiePending /\ Dispatched)
       => (Last(hist').kind = "ARRIVAL" /\ queue' = Append(queue, t'))]_vars

\* The tie-break in the four variants that compare two scalars.
C2_TieScalarVariants ==
  [][(variant # "deepseek" /\ TiePending /\ Dispatched)
       => (Last(hist').kind = "ARRIVAL" /\ queue' = Append(queue, t'))]_vars

\* ------------------------------------------------------------------ C3
\* C3: the clock never decreases from one dispatched event to the next (each
\* elapsed interval is >= 0; no pending event lies before the clock, so the
\* next interval is >= 0 too), and after each dispatch the clock is the time
\* of the event just dispatched.
C3_ClockMonotone ==
  /\ hist # <<>> => t = Last(hist).time
  /\ last_event_time <= t
  /\ \A i \in 1 .. Len(hist) :
       (IF i = 1 THEN 0 ELSE hist[i - 1].time) <= hist[i].time
  /\ \A p \in PendingArrivals \cup PendingDepartures : t <= p

\* A run whose clock has both stood still over one event and advanced over
\* another.
C3_Witness ==
  /\ \E i \in 1 .. Len(hist) - 1 : hist[i].time = hist[i + 1].time
  /\ \E i \in 1 .. Len(hist) - 1 : hist[i].time < hist[i + 1].time
  /\ Last(hist).kind = "DEPARTURE"

\* ------------------------------------------------------------------ C4
\* C4: customers begin service in arrival order.  The wait line holds, oldest
\* first, exactly the arrival times of the customers who have arrived and not
\* yet begun service (so an arrival was appended at the tail and every
\* service start removed the head); its timestamps are non-decreasing and
\* none is later than the clock.
C4_FifoOrder ==
  LET arr == ArrivalEvents(hist) IN
  /\ Len(queue) = Len(arr) - NStarted
  /\ \A k \in 1 .. Len(queue) : queue[k] = arr[NStarted + k].time
  /\ \A k \in 1 .. Len(queue) - 1 : queue[k] <= queue[k + 1]
  /\ \A k \in 1 .. Len(queue) : queue[k] <= t

\* A customer was taken from a wait line of two customers who arrived at
\* different times, and the later one is still waiting.
C4_Witness ==
  /\ hist # <<>>
  /\ Last(hist).kind = "DEPARTURE" /\ Last(hist).started
  /\ Last(hist).qlen_before >= 2
  /\ queue # <<>>
  /\ Last(hist).time - Last(hist).wait < queue[1]

\* ------------------------------------------------------------------ C5
\* The integral of the queue-length step function rebuilt from the history:
\* over the interval that ends at event i the wait line had the length the
\* previous event left (0 before the first event).
RECURSIVE Integral(_, _)
Integral(h, i) ==
  IF i = 0 THEN 0
  ELSE Integral(h, i - 1)
       + (IF i = 1 THEN 0 ELSE h[i - 1].qlen)
         * (h[i].time - (IF i = 1 THEN 0 ELSE h[i - 1].time))

\* C5: in Final, ChatGPT, Perplexity and deepseek, after every dispatched
\* event area_Q equals the integral of the queue-length step function rebuilt
\* from the event history.
C5_AreaIsIntegral ==
  variant # "Gemini" => area_Q = Integral(hist, Len(hist))

\* The wait line held two customers over an interval of positive length and
\* was empty over another.
C5_Witness ==
  /\ variant # "Gemini"
  /\ \E i \in 2 .. Len(hist) :
       hist[i - 1].qlen = 2 /\ hist[i].time > hist[i - 1].time
  /\ \E i \in 2 .. Len(hist) :
       hist[i - 1].qlen = 0 /\ hist[i].time > hist[i - 1].time
  /\ area_Q >= 2

\* ------------------------------------------------------------------ C6
\* C6: every recorded wait is >= 0 and is the service-start time minus the
\* arrival time of that customer (the k-th customer to begin service is the
\* k-th to arrive); a customer arriving while the server is idle begins
\* service at once with a recorded wait of 0.  Where the variant keeps the
\* list of waits, the list is the waits in service-start order.
C6_RecordedWaits ==
  LET arr == ArrivalEvents(hist)
      st  == StartEvents(hist)
  IN  /\ Len(st) <= Len(arr)
      /\ \A k \in 1 .. Len(st) :
           /\ st[k].wait >= 0
           /\ st[k].wait = st[k].time - arr[k].time
      /\ \A i \in 1 .. Len(hist) :
           (hist[i].kind = "ARRIVAL" /\ ~hist[i].busy_before)
             => (hist[i].started /\ hist[i].wait = 0)
      /\ variant # "Perplexity"
           => delays = [k \in 1 .. Len(st) |-> st[k].wait]
      /\ variant = "Perplexity" => count_started = Len(st)

\* A customer who waited a positive time has begun service, after one who
\* arrived at an idle server.
C6_Witness ==
  /\ hist # <<>>
  /\ Last(hist).started /\ Last(hist).wait > 0
  /\ \E i \in 1 .. Len(hist) :
       hist[i].kind = "ARRIVAL" /\ ~hist[i].busy_before /\ hist[i].time > 0

\* ------------------------------------------------------------------ C7
\* The average waiting time each variant reports, as <<numerator,
\* denominator>>: np.mean(delays) if delays else 0.0 in Final and ChatGPT,
\* sum_wait / count_started if count_started else 0.0 in Perplexity, the
\* stored avg_wait in Gemini and deepseek.
ReportedAvgWait ==
  CASE variant \in {"Final", "ChatGPT"} ->
         IF delays # <<>> THEN <<SumSeq(delays), Len(delays)>> ELSE <<0, 1>>
    [] variant = "Perplexity" ->
         IF count_started # 0 THEN <<total_wait, count_started>> ELSE <<0, 1>>
    [] OTHER -> avg_wait

\* The states in which the average is reported: deepseek refreshes and shows
\* it at the end of a frame, the other variants after any event.
AvgWaitReportedNow ==
  variant = "deepseek" => (events > 0 /\ FrameEnd(events))

RECURSIVE SumWaits(_)
SumWaits(st) == IF st = <<>> THEN 0 ELSE Head(st).wait + SumWaits(Tail(st))

\* C7: the average waiting time a variant reports equals the sum of the
\* recorded waits divided by the number of customers who have begun service,
\* and 0 when none has.
C7_AverageWait ==
  AvgWaitReportedNow =>
    LET r == ReportedAvgWait
        n == NStarted
        w == SumWaits(StartEvents(hist))
    IN  /\ r[2] > 0
        /\ IF n = 0 THEN r[1] = 0 ELSE r[1] * n = w * r[2]

\* The same equality in the four variants other than deepseek.
C7_AverageWaitOtherVariants ==
  variant # "deepseek" => C7_AverageWait

\* C7, second half: the divisor of the reported average is the number of
\* customers who have begun service.
C7_Divisor ==
  (AvgWaitReportedNow /\ NStarted > 0) => ReportedAvgWait[2] = NStarted

\* ------------------------------------------------------------------ C8
\* C8: whenever the wait line is empty, the server idle and no Departure
\* pending, the number of customers who have begun service equals the served
\* counter.
C8_QuiescentStartedIsServed ==
  (queue = <<>> /\ ~server_busy /\ PendingDepartures = {})
    => NStarted = num_served

\* The same in the four variants other than deepseek.
C8_QuiescentOtherVariants ==
  variant # "deepseek" => C8_QuiescentStartedIsServed

\* ------------------------------------------------------------------ C9
\* C9: in Perplexity with horizon N >= 1 the loop is left exactly when served
\* has become N: served never exceeds N, the last event dispatched is the
\* Departure that made served equal N, the Arrival scheduled after it is
\* still pending, and nothing more is dispatched.
C9_StopsAtHorizon ==
  variant = "Perplexity" =>
    /\ num_served <= N
    /\ (num_served = N) <=> (pc = "done")
    /\ pc = "done" =>
         /\ Last(hist).kind = "DEPARTURE"
         /\ t = Last(hist).time
         /\ next_arrival < INF /\ t <= next_arrival
         /\ ~ENABLED (PerplexityArrival(Durations, Durations)
                        \/ PerplexityDeparture(Durations))

\* The loop was left at the second departure with an Arrival pending and a
\* customer still in the wait line.
C9_Witness ==
  /\ variant = "Perplexity" /\ N = 2 /\ pc = "done"
  /\ num_served = 2 /\ queue # <<>> /\ next_arrival < INF

\* ----------------------------------------------------------------- C10
\* C10: for every horizon N >= 1 and every source of non-negative durations,
\* Perplexity's loop reaches served = N and terminates.  Every iteration
\* consumes an entry of A or raises served, so a run has at most M + N
\* iterations and always stops; the claim is that it never stops anywhere but
\* at served = N.
C10_LoopEndsAtHorizon ==
  (variant = "Perplexity" /\ pc # "run") => (pc = "done" /\ num_served = N)

\* ------------------------------------------------------------------- C16
\* The number of pending Arrival events and of pending Departure events: the
\* entries of deepseek's event list, or the scalars that are not the sentinel.
IsArrivalEntry(e) == e[1] = "ARRIVAL"
IsDepartureEntry(e) == e[1] = "DEPARTURE"
NPendingArrivals ==
  IF variant = "deepseek"
  THEN Len(SelectSeq(event_list, IsArrivalEntry))
  ELSE IF next_arrival < INF THEN 1 ELSE 0
NPendingDepartures ==
  IF variant = "deepseek"
  THEN Len(SelectSeq(event_list, IsDepartureEntry))
  ELSE IF next_departure < INF THEN 1 ELSE 0

\* C16: in every reachable state of every variant exactly one Arrival is
\* pending, and a Departure is pending exactly when the server is busy (one
\* Departure when busy, none when idle).
C16_OneArrivalDepartureIffBusy ==
  /\ NPendingArrivals = 1
  /\ NPendingDepartures = Busy01

\* A customer taken from the wait line is in service, one more still waits,
\* and the events list holds the next Arrival and that customer's Departure.
C16_Witness ==
  /\ variant = "deepseek" /\ hist # <<>>
  /\ Last(hist).kind = "DEPARTURE" /\ Last(hist).started
  /\ server_busy /\ queue # <<>>
  /\ NPendingArrivals = 1 /\ NPendingDepartures = 1

\* ------------------------------------------------------------------- C17
\* What a Departure dispatched at a non-empty wait line has to do: the head
\* customer leaves the wait line, its wait (clock minus its arrival time) is
\* recorded, it is counted as started, its Departure is scheduled and the
\* server stays busy.
DepartureAtWaitLine ==
  Dispatched /\ Last(hist').kind = "DEPARTURE" /\ queue # <<>>
ServesHead ==
  /\ queue' = Tail(queue)
  /\ Last(hist').started
  /\ Last(hist').wait = t' - Head(queue)
  /\ (variant = "Perplexity" => count_started' = count_started + 1)
  /\ server_busy'
  /\ NPendingDepartures' = 1

\* C17: every Departure dispatched while the wait line is non-empty removes
\* the head customer, records its wait, counts it as started, schedules a new
\* Departure and leaves the server busy, the Departure at which served
\* reaches N in Perplexity included.
C17_DepartureServesHead == [][DepartureAtWaitLine => ServesHead]_vars

\* C17 for every Departure other than Perplexity's last one.
C17_BeforeHorizon ==
  [][(DepartureAtWaitLine /\ ~(variant = "Perplexity" /\ num_served' >= N))
       => ServesHead]_vars

\* ------------------------------------------------------------------- C18
\* C18: in Perplexity the arrays A and S of length M = 10 * N + 1000 are
\* never exhausted: while the loop runs the indices ia_i and sv_i are below
\* M at every read, so that no draw fails.
C18_ArraysNeverExhausted ==
  variant = "Perplexity" => (pc # "IndexError" /\ ia_i <= M(N) /\ sv_i <= M(N))

\* C18 for the array S alone: a service draw is taken for a customer that
\* begins service before the horizon, so at most N of them are read.
C18_ServiceArraySuffices ==
  variant = "Perplexity" => (sv_i <= N /\ sv_i < M(N))

\* ------------------------------------------------------------------- C19
\* A Departure dispatched at an empty wait line, and what it may do: the
\* server becomes idle, no Departure is pending and no value is taken from
\* the variate source.  A service duration is taken only at an event at
\* which a customer begins service.
DepartureAtEmptyLine ==
  Dispatched /\ Last(hist').kind = "DEPARTURE" /\ queue = <<>>
IdlesWithoutDraw ==
  /\ ~server_busy'
  /\ NPendingDepartures' = 0
  /\ ia_i' = ia_i /\ sv_i' = sv_i
DrawsOnlyAtStart == (Dispatched /\ sv_i' # sv_i) => Last(hist').started

\* C19: a Departure dispatched while the wait line is empty sets the server
\* idle, schedules no Departure and draws nothing from the variate source; a
\* service duration is drawn only when a customer begins service, in Final
\* as in the other variants.
C19_EmptyDepartureDrawsNothing ==
  [][(DepartureAtEmptyLine => IdlesWithoutDraw) /\ DrawsOnlyAtStart]_vars

\* C19 for the variants other than Final.
C19_OtherVariants ==
  [][variant # "Final" =>
       ((DepartureAtEmptyLine => IdlesWithoutDraw) /\ DrawsOnlyAtStart)]_vars

\* ------------------------------------------------------------------- C20
\* C20: whenever the server is idle, the next dispatched event is an Arrival:
\* the no-pending-Departure sentinel is never selected as the next event, so
\* the clock never becomes the sentinel.
C20_IdleThenArrival ==
  [][(Dispatched /\ ~server_busy)
       => (Last(hist').kind = "ARRIVAL" /\ t' < INF)]_vars

\* The server went idle at a Departure and the next event, dispatched at the
\* idle server, was an Arrival.
C20_Witness ==
  /\ Len(hist) >= 3
  /\ hist[Len(hist) - 1].kind = "DEPARTURE" /\ ~hist[Len(hist) - 1].started
  /\ Last(hist).kind = "ARRIVAL" /\ ~Last(hist).busy_before
  /\ next_departure < INF \/ variant = "deepseek"

\* ------------------------------------------------------------------- C15
\* Perplexity's main(N=1) after its loop, and the two draws that decide the
\* run, read from its history: the first customer's service duration (from
\* its arrival, where it begins service, to its departure) and the second
\* interarrival duration (from the first arrival to the second one, which is
\* still pending when only two events were dispatched).
HorizonOneDone == variant = "Perplexity" /\ N = 1 /\ pc = "done"
FirstService == Last(hist).time - hist[1].time
SecondInterarrival ==
  (IF Len(hist) = 2 THEN next_arrival ELSE hist[2].time) - hist[1].time

ScenarioIA == IF ia_i = 1 THEN {1} ELSE {1, 8}
ScenarioSV == IF sv_i = 0 THEN {4} ELSE {1, 2}

InitScenario ==
  InitWith({"Final", "ChatGPT", "Perplexity", "deepseek"}, 1 .. MaxN, {2})

NextScenario ==
  \/ (events < MaxEvents /\ FinalArrival(ScenarioIA, ScenarioSV) /\ Single)
  \/ (events < MaxEvents /\ FinalDeparture(ScenarioSV) /\ Single)
  \/ (events < MaxEvents /\ ChatGPTArrival(ScenarioIA, ScenarioSV) /\ Single)
  \/ (events < MaxEvents /\ ChatGPTDeparture(ScenarioSV) /\ Single)
  \/ (events < MaxEvents /\ PerplexityArrival(ScenarioIA, ScenarioSV) /\ Single)
  \/ (events < MaxEvents /\ PerplexityDeparture(ScenarioSV) /\ Single)
  \/ (events < MaxEvents /\ DeepseekArrival(ScenarioIA, ScenarioSV) /\ Single)
  \/ (events < MaxEvents /\ DeepseekDeparture(ScenarioSV) /\ Single)

SpecScenario == InitScenario /\ [][NextScenario]_vars

IsDeparture(e) == e.kind = "DEPARTURE"
DepartureEvents(h) == SelectSeq(h, IsDeparture)

\* The second customer joins the wait line at 1.5 behind the first one.
SecondJoinsWaitLine ==
  /\ hist[1].kind = "ARRIVAL" /\ hist[1].started
  /\ hist[2].kind = "ARRIVAL" /\ hist[2].time = hist[1].time + 1
  /\ hist[2].busy_before /\ ~hist[2].started /\ hist[2].qlen = 1
\* Its wait is recorded at the first departure: that departure's time minus
\* its own arrival time, a positive number.
SecondWaitRecorded ==
  LET d == DepartureEvents(hist)[1] IN
    /\ d.time = hist[1].time + 4
    /\ d.started
    /\ d.wait = d.time - hist[2].time
    /\ d.wait > 0
\* With these two customers alone, the area accumulated up to the second
\* departure is the one customer waiting from 1.5 to the first departure.
AreaOfOneWaiting ==
  area_Q = 1 * (DepartureEvents(hist)[1].time - hist[2].time)

\* C14: with arrivals at 1.0 and 1.5 and a first service of 2.0, the second
\* customer joins the wait line at 1.5, its recorded wait is the first
\* customer's departure time minus 1.5 (positive), and the area_Q accumulated
\* between 1.5 and the second departure is that of a queue length of 1.
C14_SecondCustomerWaits ==
  /\ Len(hist) >= 2 => SecondJoinsWaitLine
  /\ Len(DepartureEvents(hist)) >= 1 => SecondWaitRecorded
  /\ (Len(DepartureEvents(hist)) = 2 /\ Len(ArrivalEvents(hist)) = 2)
       => AreaOfOneWaiting

\* C14 for the runs in which the first departure is not Perplexity's last.
C14_BeforeHorizon ==
  ~(variant = "Perplexity" /\ N = 1) => C14_SecondCustomerWaits

\* ------------------------------------------------------------------- C11
\* The constructor of deepseek and Perplexity's main called with any means
\* and any horizon.  A mean is -1, 0 or 1 (only its sign decides what the code
\* does); the horizons are those at which M = 10 * N + 1000 is negative,
\* zero and positive.
ConfigMeans == {-1, 0, 1}
ConfigHorizons == {-101, -100, -1} \cup (0 .. MaxN)

\* Perplexity's main before its loop: rng.exponential(scale, size=M) raises
\* ValueError for a negative scale or a negative size; A[0] raises IndexError
\* for M = 0; the while condition is then tested for the first time.
PerplexityStart(n, c) ==
  IF c.mean_inter < 0 \/ c.mean_serv < 0 \/ M(n) < 0 THEN "ValueError"
  ELSE IF M(n) = 0 THEN "IndexError"
  ELSE IF PerplexityLoopCond(0, n) THEN "run" ELSE "done"

\* What the variate source returns under the configuration.  deepseek:
\* generate_interarrival returns inf and generate_service returns 1.0 when
\* the rate is not positive (the rate is 0 for a non-positive mean).
\* Perplexity: a scale of 0 gives draws of 0.0.
Interarrivals ==
  IF variant = "deepseek"
  THEN (IF cfg.mean_inter > 0 THEN Durations ELSE {INF})
  ELSE (IF cfg.mean_inter = 0 THEN {0} ELSE Durations)
Services ==
  IF variant = "deepseek"
  THEN (IF cfg.mean_serv > 0 THEN Durations ELSE {1})
  ELSE (IF cfg.mean_serv = 0 THEN {0} ELSE Durations)

InitConfig ==
  /\ variant \in {"Perplexity", "deepseek"}
  /\ cfg \in [mean_inter : ConfigMeans, mean_serv : ConfigMeans]
  /\ N \in (IF variant = "Perplexity" THEN ConfigHorizons ELSE {0})
  /\ pc = (IF variant = "Perplexity" THEN PerplexityStart(N, cfg) ELSE "run")
  /\ \E a \in (IF pc \in {"run", "done"} THEN Interarrivals ELSE {INF}) :
       StartOfRun(a)
  /\ throttle = DefaultThrottle(variant)
  /\ stream = <<>>
  /\ run = 1
  /\ trace = <<>>

\* deepseek's update_summary formats 1/self.interarrival_mean and
\* 1/self.service_mean at the end of a frame: ZeroDivisionError for a mean of
\* 0, raised inside the animation callback after the frame's events were
\* dispatched.  The animation may go on or stop there.
SummaryFails ==
  /\ variant = "deepseek" /\ pc = "run"
  /\ events > 0 /\ FrameEnd(events)
  /\ cfg.mean_inter = 0 \/ cfg.mean_serv = 0
  /\ pc' = "ZeroDivisionError"
  /\ UNCHANGED <<variant, N, t, server_busy, queue, next_arrival,
                 next_departure, event_list, num_arrivals, num_served, delays,
                 total_wait, count_started, area_Q, last_event_time,
                 current_Q, current_in_service, avg_wait, customer_indices,
                 ia_i, sv_i, events, hist, cfg, throttle, snapshots>>

NextConfig ==
  \/ (events < MaxEvents /\ PerplexityArrival(Interarrivals, Services) /\ Single)
  \/ (events < MaxEvents /\ PerplexityDeparture(Services) /\ Single)
  \/ (events < MaxEvents /\ DeepseekArrival(Interarrivals, Services) /\ Single)
  \/ (events < MaxEvents /\ DeepseekDeparture(Services) /\ Single)
  \/ (SummaryFails /\ Single)

SpecConfig == InitConfig /\ [][NextConfig]_vars

BadConfig == cfg.mean_inter <= 0 \/ cfg.mean_serv <= 0 \/ N < 0
Rejected == pc \in {"ValueError", "IndexError"}

\* C11: a configuration with a non-positive mean interarrival or service
\* duration, or a negative horizon, is rejected at construction, before any
\* event is dispatched.
C11_BadConfigRejected == BadConfig => (Rejected /\ hist = <<>>)

\* What is rejected: a negative mean or a horizon below -99 in Perplexity.
C11_NegativeScaleRejected ==
  (variant = "Perplexity"
     /\ (cfg.mean_inter < 0 \/ cfg.mean_serv < 0 \/ N <= -100))
    => (Rejected /\ hist = <<>>)

\* ------------------------------------------- two executions of a program
\* The program is executed, then executed again: the second execution
\* starts from the state after initialisation, and what the first one went
\* through is kept in trace for comparison.  TwinEvents loop iterations of
\* each execution are explored; MaxThrottle is the largest throttle tried.
TwinEvents == 4
MaxThrottle == 2

\* np.random.default_rng(SEED) / default_rng(seed): Final, ChatGPT and
\* Perplexity seed their generator.  Gemini and deepseek call
\* random.expovariate of the random module, which nothing seeds: the module
\* seeds itself from the operating system when it is imported.
Seeded(v) == v \in {"Final", "ChatGPT", "Perplexity"}

\* Values taken so far from a generator that is drawn from one value at a
\* time, and the position in the generator's output of the interarrival draw
\* and of the service draw of the next iteration.  ChatGPT draws the service
\* duration before the interarrival duration when an arrival starts service,
\* the others after it; Perplexity takes A as the first M values and S as
\* the M values after them.
Drawn == ia_i + sv_i
PosA ==
  IF variant = "Perplexity" THEN ia_i + 1
  ELSE IF variant = "ChatGPT" /\ ~server_busy THEN Drawn + 2
  ELSE Drawn + 1
PosS(at_arrival) ==
  IF variant = "Perplexity" THEN M(N) + sv_i + 1
  ELSE IF at_arrival /\ variant # "ChatGPT" THEN Drawn + 2
  ELSE Drawn + 1

\* The value at a position of the output: the one already returned there,
\* or any duration where nothing is known of the output.
Feed(p) == IF p \in DOMAIN stream THEN {stream[p]} ELSE Durations

\* What an execution shows after an event.
Observed ==
  [kind      |-> Last(hist).kind,
   clock     |-> t,
   busy      |-> server_busy,
   line      |-> queue,
   arrivals  |-> num_arrivals,
   served    |-> num_served,
   started   |-> count_started,
   delays    |-> delays,
   total     |-> total_wait,
   area      |-> area_Q,
   avg       |-> ReportedAvgWait,
   throttle  |-> throttle,
   snapshots |-> snapshots]

\* The durations an iteration has drawn, read from what it scheduled: the
\* pending Arrival and the pending Departure are at the clock plus the draw.
\* A service draw that scheduled nothing (Final, departure at an empty wait
\* line) was discarded: it is any duration.
TakenA == {a - t' : a \in PendingArrivals'}
TakenS ==
  IF sv_i' = sv_i THEN {0}
  ELSE IF PendingDepartures' # {} THEN {d - t' : d \in PendingDepartures'}
  ELSE Durations

\* The first execution leaves its observations in trace and, when kept, the
\* values it drew in stream, at their positions.
KeepFrom(kept, at_arrival, As, Ss) ==
  /\ \E a \in As, s \in Ss :
       stream' = IF run = 1 /\ kept
                 THEN stream
                      @@ (IF ia_i' > ia_i THEN PosA :> a ELSE <<>>)
                      @@ (IF sv_i' > sv_i THEN PosS(at_arrival) :> s ELSE <<>>)
                 ELSE stream
  /\ trace' = IF run = 1 THEN Append(trace, Observed') ELSE trace
  /\ run' = run

Keep(kept, at_arrival) == KeepFrom(kept, at_arrival, TakenA, TakenS)

\* The durations the next iteration draws.
FedA == Feed(PosA)
FedS(at_arrival) == Feed(PosS(at_arrival))

\* The program started again: the state after initialisation, the first
\* interarrival draw being the first value of the generator's output.
RestartAs(v, Ks, First) ==
  /\ run = 1
  /\ events = TwinEvents \/ pc # "run"
  /\ run' = 2
  /\ throttle' \in Ks
  /\ variant' = v
  /\ UNCHANGED <<N, cfg, stream, trace>>
  /\ pc' = "run"
  /\ t' = 0
  /\ server_busy' = FALSE
  /\ queue' = <<>>
  /\ \E a \in First :
       IF v = "deepseek"
       THEN /\ event_list' = << <<"ARRIVAL", a>> >>
            /\ next_arrival' = INF
       ELSE /\ event_list' = <<>>
            /\ next_arrival' = a
  /\ next_departure' = INF
  /\ num_arrivals' = 0
  /\ num_served' = 0
  /\ delays' = <<>>
  /\ total_wait' = 0
  /\ count_started' = 0
  /\ area_Q' = 0
  /\ last_event_time' = 0
  /\ current_Q' = 0
  /\ current_in_service' = 0
  /\ avg_wait' = <<0, 1>>
  /\ customer_indices' = <<>>
  /\ ia_i' = 1
  /\ sv_i' = 0
  /\ events' = 0
  /\ hist' = <<>>
  /\ snapshots' = 0

Restart(Ks) == RestartAs(variant, Ks, Feed(1))

FirstArrivalTime ==
  IF variant = "deepseek" THEN event_list[1][2] ELSE next_arrival

InitTwin(Vs, all) ==
  /\ variant \in Vs
  /\ N \in (IF variant = "Perplexity" THEN 1 .. MaxN ELSE {0})
  /\ pc = "run"
  /\ \E a \in Durations : StartOfRun(a)
  /\ cfg = DefaultCfg
  /\ throttle = DefaultThrottle(variant)
  /\ stream = IF all \/ Seeded(variant) THEN 1 :> FirstArrivalTime ELSE <<>>
  /\ run = 1
  /\ trace = <<>>

\* ------------------------------------------------------------------- C12
\* The second execution is fed the durations of the first one and runs with
\* another throttle.  Gemini has no throttle and is left out.
InitThrottle == InitTwin({"Final", "ChatGPT", "Perplexity", "deepseek"}, TRUE)

NextThrottle ==
  \/ (/\ events < TwinEvents
      /\ FinalArrival(FedA, FedS(TRUE))
      /\ Keep(TRUE, TRUE))
  \/ (/\ events < TwinEvents
      /\ FinalDeparture(FedS(FALSE))
      /\ Keep(TRUE, FALSE))
  \/ (/\ events < TwinEvents
      /\ ChatGPTArrival(FedA, FedS(TRUE))
      /\ Keep(TRUE, TRUE))
  \/ (/\ events < TwinEvents
      /\ ChatGPTDeparture(FedS(FALSE))
      /\ Keep(TRUE, FALSE))
  \/ (/\ events < TwinEvents
      /\ PerplexityArrival(FedA, FedS(TRUE))
      /\ Keep(TRUE, TRUE))
  \/ (/\ events < TwinEvents
      /\ PerplexityDeparture(FedS(FALSE))
      /\ Keep(TRUE, FALSE))
  \/ (/\ events < TwinEvents
      /\ DeepseekArrival(FedA, FedS(TRUE))
      /\ Keep(TRUE, TRUE))
  \/ (/\ events < TwinEvents
      /\ DeepseekDeparture(FedS(FALSE))
      /\ Keep(TRUE, FALSE))
  \/ Restart((1 .. MaxThrottle) \ {throttle})

SpecThrottle == InitThrottle /\ [][NextThrottle]_vars

\* Clock, server state, wait line, counters, total wait and area of an
\* observation.
Core(o) ==
  <<o.clock, o.busy, o.line, o.arrivals, o.served, o.started, o.delays,
    o.total, o.area>>

\* C12: the snapshot throttle changes only how often a snapshot is emitted:
\* two executions fed the same durations with different throttle values go
\* through the same sequence of clock, server state, wait line, counters,
\* total wait and area_Q, event after event, and stop after the same event.
C12_ThrottleOnlyCadence ==
  /\ (run = 2 /\ events > 0) =>
       /\ events <= Len(trace)
       /\ Observed.kind = trace[events].kind
       /\ Core(Observed) = Core(trace[events])
  /\ (run = 2 /\ pc # "run") => events = Len(trace)

\* A second execution that has dispatched as many events as the first one,
\* with another throttle and another number of snapshots, customers having
\* waited in both.
C12_Witness ==
  /\ run = 2 /\ events = TwinEvents
  /\ throttle # Last(trace).throttle
  /\ snapshots # Last(trace).snapshots
  /\ area_Q > 0 /\ queue # <<>>

\* ------------------------------------------------------------------- C13
\* The program executed twice with the same seed and parameters: a seeded
\* generator returns in the second execution what it returned in the first,
\* an unseeded one returns whatever it returns.
InitRerun == InitTwin(Variants, FALSE)

NextRerun ==
  \/ (/\ events < TwinEvents
      /\ FinalArrival(FedA, FedS(TRUE))
      /\ Keep(Seeded(variant), TRUE))
  \/ (/\ events < TwinEvents
      /\ FinalDeparture(FedS(FALSE))
      /\ Keep(Seeded(variant), FALSE))
  \/ (/\ events < TwinEvents
      /\ ChatGPTArrival(FedA, FedS(TRUE))
      /\ Keep(Seeded(variant), TRUE))
  \/ (/\ events < TwinEvents
      /\ ChatGPTDeparture(FedS(FALSE))
      /\ Keep(Seeded(variant), FALSE))
  \/ (/\ events < TwinEvents
      /\ GeminiArrival(FedA, FedS(TRUE))
      /\ Keep(Seeded(variant), TRUE))
  \/ (/\ events < TwinEvents
      /\ GeminiDeparture(FedS(FALSE))
      /\ Keep(Seeded(variant), FALSE))
  \/ (/\ events < TwinEvents
      /\ PerplexityArrival(FedA, FedS(TRUE))
      /\ Keep(Seeded(variant), TRUE))
  \/ (/\ events < TwinEvents
      /\ PerplexityDeparture(FedS(FALSE))
      /\ Keep(Seeded(variant), FALSE))
  \/ (/\ events < TwinEvents
      /\ DeepseekArrival(FedA, FedS(TRUE))
      /\ Keep(Seeded(variant), TRUE))
  \/ (/\ events < TwinEvents
      /\ DeepseekDeparture(FedS(FALSE))
      /\ Keep(Seeded(variant), FALSE))
  \/ Restart({throttle})

SpecRerun == InitRerun /\ [][NextRerun]_vars

\* The second execution has gone, so far, through the (clock, event kind)
\* sequence of the first one and shows its averages: the average waiting
\* time, and the time-average queue length area_Q / t.
SameRun ==
  (run = 2 /\ events > 0) =>
    /\ events <= Len(trace)
    /\ Observed.kind = trace[events].kind
    /\ Observed.clock = trace[events].clock
    /\ Observed.avg[1] * trace[events].avg[2]
         = trace[events].avg[1] * Observed.avg[2]
    /\ Observed.area = trace[events].area

\* C13: given identical seed and parameters, two independent executions
\* produce identical (clock, event kind) sequences and identical final
\* averages, in every variant, Gemini and deepseek included.
C13_SameSeedSameRun == SameRun

\* C13 for the variants that seed their generator.
C13_SeededVariants == Seeded(variant) => SameRun

\* ------------------------------------------------------------------- C21
\* C21: the server is never idle while a customer waits: in every reachable
\* state of every variant, the state after the run loop has ended included,
\* an idle server implies an empty wait line.
C21_IdleImpliesEmptyLine == ~server_busy => queue = <<>>

\* C21 for the states in which the loop has not ended.
C21_WhileRunning == pc = "run" => (~server_busy => queue = <<>>)

\* ------------------------------------------------------------------- C24
\* C24: the redundant state kept beside the wait-line deque mirrors it after
\* every event: in Gemini current_queue_len is the length of
\* queue_arrival_times and current_in_service is 1 exactly when the server
\* is busy (0 otherwise); in deepseek current_Q is the length of the queue.
C24_MirrorsWaitLine ==
  /\ variant = "Gemini" =>
       /\ current_Q = Len(queue)
       /\ current_in_service \in {0, 1}
       /\ current_in_service = 1 <=> server_busy
  /\ variant = "deepseek" => current_Q = Len(queue)

\* Gemini after a departure that took a customer from a wait line of two or
\* more: the counter was raised twice or more and lowered once.
C24_Witness ==
  /\ variant = "Gemini" /\ hist # <<>>
  /\ Last(hist).kind = "DEPARTURE" /\ Last(hist).started
  /\ queue # <<>> /\ current_Q = Len(queue)
  /\ current_in_service = 1

\* ------------------------------------------------------------------- C23
\* C23: in Gemini the index stored in customer_indices beside each recorded
\* wait is the arrival ordinal of the customer whose wait it is: the k-th
\* customer to begin service is recorded with index k, so that the indices
\* are distinct and strictly increasing.
C23_IndexIsArrivalOrdinal ==
  variant = "Gemini" =>
    /\ Len(customer_indices) = Len(delays)
    /\ \A k \in 1 .. Len(customer_indices) : customer_indices[k] = k
    /\ \A k \in 1 .. Len(customer_indices) - 1 :
         customer_indices[k] < customer_indices[k + 1]

\* What the stored indices do satisfy: one per recorded wait, never below the
\* ordinal of the customer, never above the number of arrivals, and never
\* decreasing.
C23_IndexIsArrivalCount ==
  variant = "Gemini" =>
    /\ Len(customer_indices) = Len(delays)
    /\ \A k \in 1 .. Len(customer_indices) :
         k <= customer_indices[k] /\ customer_indices[k] <= num_arrivals
    /\ \A k \in 1 .. Len(customer_indices) - 1 :
         customer_indices[k] <= customer_indices[k + 1]

\* ------------------------------------------------------------------- C22
\* Final.py and z___ChatGPT.py on one generator: the first execution is
\* Final.py, the second z___ChatGPT.py, both seeded alike, so that the k-th
\* value the generator returns is the same in both.
INTERARRIVAL_MEAN == 2
SERVICE_MEAN == 1

\* rng.exponential(scale) is scale times the generator's next standard
\* variate: stream holds the standard variates, by position.
ScaledA == {INTERARRIVAL_MEAN * e : e \in Feed(PosA)}
ScaledS(at_arrival) == {SERVICE_MEAN * e : e \in Feed(PosS(at_arrival))}
ScaledFirst == {INTERARRIVAL_MEAN * e : e \in Feed(1)}

\* The standard variates behind the durations the iteration drew.
UnitA == {a \div INTERARRIVAL_MEAN : a \in TakenA}
UnitS == {s \div SERVICE_MEAN : s \in TakenS}
KeepUnits(at_arrival) == KeepFrom(TRUE, at_arrival, UnitA, UnitS)

InitSameStream ==
  /\ variant = "Final"
  /\ N = 0
  /\ pc = "run"
  /\ \E e \in Durations :
       /\ StartOfRun(INTERARRIVAL_MEAN * e)
       /\ stream = 1 :> e
  /\ cfg = DefaultCfg
  /\ throttle = DefaultThrottle(variant)
  /\ events = 0
  /\ hist = <<>>
  /\ snapshots = 0
  /\ run = 1
  /\ trace = <<>>

NextSameStream ==
  \/ (/\ events < TwinEvents
      /\ FinalArrival(ScaledA, ScaledS(TRUE))
      /\ KeepUnits(TRUE))
  \/ (/\ events < TwinEvents
      /\ FinalDeparture(ScaledS(FALSE))
      /\ KeepUnits(FALSE))
  \/ (/\ events < TwinEvents
      /\ ChatGPTArrival(ScaledA, ScaledS(TRUE))
      /\ KeepUnits(TRUE))
  \/ (/\ events < TwinEvents
      /\ ChatGPTDeparture(ScaledS(FALSE))
      /\ KeepUnits(FALSE))
  \/ RestartAs("ChatGPT", {throttle}, ScaledFirst)

SpecSameStream == InitSameStream /\ [][NextSameStream]_vars

SameDispatch ==
  /\ events <= Len(trace)
  /\ Observed.kind = trace[events].kind
  /\ Observed.clock = trace[events].clock
  /\ Observed.busy = trace[events].busy
  /\ Observed.line = trace[events].line

\* C22: Final.py and z___ChatGPT.py, driven by the same stream of variate
\* draws (same seed, same parameters), dispatch the same sequence of
\* (clock, event kind) and pass through the same server state and wait line
\* after every event.
C22_SameStreamSameRun == (run = 2 /\ events > 0) => SameDispatch

\* C22 for the first event alone, before the two orders of drawing part.
C22_FirstEvent == (run = 2 /\ events = 1) => SameDispatch

=============================================================================
